---- MODULE Spec2Model ----
(***************************************************************************)
(* Batch assembly of molecular structures for DimeNet                      *)
(* (src/src/mol/dimenet/loader.py, AtomsCollate.__call__).                 *)
(*                                                                         *)
(* Conventions.  A numpy 1-d array is a sequence; python position p is     *)
(* sequence position p+1, the VALUES (atom ids, edge ids, row pointers)    *)
(* stay 0-based as in the code.  A position array is a record              *)
(* [shape, flat] (row-major data), so that reshape(-1, 3) is an operation. *)
(* A scipy CSR matrix is a record [data, indices, indptr, shape]; boolean  *)
(* entries are the integers 0 and 1.  Coordinates are exact multiples of   *)
(* 1/Den of the length unit, which keeps the centring of _random_rotate    *)
(* exact.  A python dict is a record with a field "keys" (the keys that    *)
(* are present) and one field per possible key.                            *)
(***************************************************************************)
EXTENDS Integers, Sequences, FiniteSets, TLC

VARIABLES
    examples,   \* the list of records handed to AtomsCollate.__call__
    cutoff,     \* AtomsCollate.cutoff (in length units)
    rand_cov,   \* AtomsCollate.rand_cov
    rotate,     \* AtomsCollate.rotate
    rng,        \* the draws np.random / rand_rotation_matrix deliver to a call
    calls,      \* number of calls made so far
    received,   \* the records as they were when the latest call started
    result,     \* outcome of the latest call
    prev        \* outcome of the call before it

vars == <<examples, cutoff, rand_cov, rotate, rng, calls, received, result, prev>>

(***************************************************************************)
(* Bounds of the model.                                                    *)
(***************************************************************************)
MaxB == 2           \* structures in a batch
MaxAtoms == 3       \* atoms in a structure
MaxTotal == 4       \* atoms in a batch, augmentation off
MaxSmall == 2       \* atoms in a batch, augmentation on
MaxCalls == 2       \* calls on the same list of records

(***************************************************************************)
(* Generic sequence helpers.                                               *)
(***************************************************************************)
RECURSIVE SumTo(_, _)
SumTo(s, n) == IF n = 0 THEN 0 ELSE SumTo(s, n - 1) + s[n]
SumSeq(s) == SumTo(s, Len(s))

RECURSIVE FlattenTo(_, _)
FlattenTo(ss, n) == IF n = 0 THEN <<>> ELSE FlattenTo(ss, n - 1) \o ss[n]
Flatten(ss) == FlattenTo(ss, Len(ss))

RECURSIVE CumTo(_, _)
CumTo(xs, n) ==
    IF n = 0 THEN <<0>>
    ELSE LET c == CumTo(xs, n - 1) IN Append(c, c[n] + xs[n])

RECURSIVE Fact(_)
Fact(n) == IF n <= 1 THEN 1 ELSE n * Fact(n - 1)

\* Coordinates are stored in units of 1/Den; Den is divisible by every
\* possible atom count, so the mean of a structure stays in the lattice.
Den == Fact(MaxAtoms)

(***************************************************************************)
(* numpy                                                                   *)
(***************************************************************************)
\* np.cumsum with the leading zero of ind_offset / indptr_offset
np_cumsum0(xs) == CumTo(xs, Len(xs))

\* np.repeat(vals, counts)
np_repeat(vals, counts) ==
    Flatten([e \in 1..Len(vals) |-> [c \in 1..counts[e] |-> vals[e]]])

\* a[idx] for an array idx of 0-based positions
np_take(a, idx) == [t \in 1..Len(idx) |-> a[idx[t] + 1]]

\* (mask).nonzero(): the 0-based positions where mask holds
np_nonzero(mask) ==
    LET pos == [p \in 1..Len(mask) |-> p - 1]
    IN  SelectSeq(pos, LAMBDA p : mask[p + 1])

\* arr.reshape(-1, 3)
reshape_n3(A) == [shape |-> <<Len(A.flat) \div 3, 3>>, flat |-> A.flat]

\* the rows of an (N, 3) array, and the array of a list of rows
Rows(A) ==
    [a \in 1..(Len(A.flat) \div 3) |->
        <<A.flat[3 * a - 2], A.flat[3 * a - 1], A.flat[3 * a]>>]
FromRows(rows) == [shape |-> <<Len(rows), 3>>, flat |-> Flatten(rows)]

VAdd(u, v) == <<u[1] + v[1], u[2] + v[2], u[3] + v[3]>>
VSub(u, v) == <<u[1] - v[1], u[2] - v[2], u[3] - v[3]>>
\* row vector times 3x3 matrix
VDot(u, M) == [c \in 1..3 |-> u[1] * M[1][c] + u[2] * M[2][c] + u[3] * M[3][c]]
\* squared Euclidean norm (np.linalg.norm squared)
Norm2(u) == u[1] * u[1] + u[2] * u[2] + u[3] * u[3]

(***************************************************************************)
(* scipy.sparse, CSR format                                                *)
(***************************************************************************)
nnz(A) == Len(A.indices)

\* the 0-based column indices stored in row r (0-based) and their values
RowLo(A, r) == A.indptr[r + 1] + 1
RowHi(A, r) == A.indptr[r + 2]
RowIndices(A, r) == SubSeq(A.indices, RowLo(A, r), RowHi(A, r))
RowData(A, r) == SubSeq(A.data, RowLo(A, r), RowHi(A, r))

\* sp.csr_matrix(dense): the nonzero entries in row-major order
csr_from_dense(D, n) ==
    LET cols == [j \in 1..n |-> j - 1]
        rowcols == [i \in 1..n |-> SelectSeq(cols, LAMBDA j : D[i][j + 1] # 0)]
        counts == [i \in 1..n |-> Len(rowcols[i])]
    IN  [data |-> [k \in 1..SumSeq(counts) |-> 1],
         indices |-> Flatten(rowcols),
         indptr |-> np_cumsum0(counts),
         shape |-> <<n, n>>]

\* A.tocoo().row: the row of every stored entry, in storage order (row r
\* repeated indptr[r + 1] - indptr[r] times)
tocoo_row(A) ==
    np_repeat([r \in 1..A.shape[1] |-> r - 1],
              [r \in 1..A.shape[1] |-> A.indptr[r + 1] - A.indptr[r]])

\* A.nonzero(): (row, col) of the stored entries whose value is not zero
csr_nonzero(A) ==
    LET keep == np_nonzero([k \in 1..nnz(A) |-> A.data[k] # 0])
    IN  [row |-> np_take(tocoo_row(A), keep), col |-> np_take(A.indices, keep)]

\* A[rows] / A[rows, :] for an array of row numbers: the rows are copied,
\* stored entries (explicit zeros included) are kept as they are
csr_row_index(A, rows) ==
    [data |-> Flatten([e \in 1..Len(rows) |-> RowData(A, rows[e])]),
     indices |-> Flatten([e \in 1..Len(rows) |-> RowIndices(A, rows[e])]),
     indptr |-> np_cumsum0([e \in 1..Len(rows) |-> Len(RowIndices(A, rows[e]))]),
     shape |-> <<Len(rows), A.shape[2]>>]

\* A.sum(1).A1: the sum of every row
csr_sum1(A) == [r \in 1..A.shape[1] |-> SumSeq(RowData(A, r - 1))]

\* sp.csr_matrix((data, indices, indptr)) without a shape: the shape is
\* inferred as (len(indptr) - 1, max(indices) + 1); with no stored entry
\* indices.max() fails and the constructor raises ValueError
csr_from_arrays(data, indices, indptr) ==
    IF Len(indices) = 0
    THEN [err |-> "ValueError", data |-> <<>>, indices |-> <<>>,
          indptr |-> <<>>, shape |-> <<0, 0>>]
    ELSE [err |-> "", data |-> data, indices |-> indices, indptr |-> indptr,
          shape |-> <<Len(indptr) - 1,
                      1 + CHOOSE m \in {indices[k] : k \in 1..Len(indices)} :
                              \A k \in 1..Len(indices) : indices[k] <= m>>]

(***************************************************************************)
(* loader.py                                                               *)
(***************************************************************************)
NoArray == [shape |-> <<0>>, flat |-> <<>>]

\* mutant of concat: the arrays are joined last record first
concat_reversed(to_stack) ==
    Flatten([n \in 1..Len(to_stack) |-> to_stack[Len(to_stack) + 1 - n]])

\* _concat: np.concatenate for arrays of rank >= 2 (the rows are joined),
\* np.hstack otherwise (the elements are joined, a scalar counting as one)
concat(to_stack) == Flatten(to_stack)

\* _bmat_fast
bmat_fast(mats) ==
    LET n == Len(mats)
        new_data == Flatten([i \in 1..n |-> mats[i].data])
        ind_offset == np_cumsum0([i \in 1..n |-> mats[i].shape[1]])
        new_indices ==
            Flatten([i \in 1..n |->
                [k \in 1..Len(mats[i].indices) |-> mats[i].indices[k] + ind_offset[i]]])
        indptr_offset == np_cumsum0([i \in 1..n |-> nnz(mats[i])])
        new_indptr ==
            Flatten([i \in 1..n |->
                LET ip == IF i >= 2 THEN Tail(mats[i].indptr) ELSE mats[i].indptr
                IN  [k \in 1..Len(ip) |-> ip[k] + indptr_offset[i]]])
    IN  csr_from_arrays(new_data, new_indices, new_indptr)

\* _restore_shape: every record's 'R' is rebound to its (N, 3) view
restore_shape(data) ==
    [n \in 1..Len(data) |-> [data[n] EXCEPT !.R = reshape_n3(@)]]

\* _get_rand_norm_3d: `size` draws of N(0, m * I); a zero covariance
\* leaves only the mean, otherwise the values are whatever was drawn
get_rand_norm_3d(size, m, draw) ==
    [a \in 1..size |-> IF m = 0 THEN <<0, 0, 0>> ELSE draw[a]]

\* _random_rotate: centre on the mean, then multiply by the drawn matrix
random_rotate(coords, M) ==
    LET n == Len(coords)
        center == [c \in 1..3 |-> SumSeq([a \in 1..n |-> coords[a][c]]) \div n]
    IN  [a \in 1..n |-> VDot(VSub(coords[a], center), M)]

\* mutant of augment: 'R_orig' is copied after the perturbation is added
augment_orig_after_noise(e, M, draw) ==
    LET R == IF rotate THEN random_rotate(Rows(e.R), M) ELSE Rows(e.R)
        deltas == get_rand_norm_3d(Len(R), rand_cov, draw)
        moved == FromRows([a \in 1..Len(R) |-> VAdd(R[a], deltas[a])])
    IN  [e EXCEPT !.keys = @ \cup {"R_orig"}, !.R_orig = moved, !.R = moved]

\* the body of the augmentation loop, lines 124-130, for one record
augment(e, M, draw) ==
    LET R == IF rotate THEN random_rotate(Rows(e.R), M) ELSE Rows(e.R)
        deltas == get_rand_norm_3d(Len(R), rand_cov, draw)
    IN  [e EXCEPT !.keys = @ \cup {"R_orig"},
                  !.R_orig = FromRows(R),
                  !.R = FromRows([a \in 1..Len(R) |-> VAdd(R[a], deltas[a])])]

\* D <= self.cutoff for a squared distance d2 (in units of 1/Den^2)
le_cutoff(d2) == cutoff >= 0 /\ d2 <= (cutoff * Den) * (cutoff * Den)

\* subtraction of two scipy boolean entries: the operands are widened to
\* integers, subtracted, and the difference is narrowed back with (x != 0)
bool_minus(a, b) == IF a - b # 0 THEN 1 ELSE 0

\* lines 139-142: the adjacency matrix of one record
adjacency(e) ==
    LET R == Rows(e.R)
        n == Len(R)
        D == [i \in 1..n |-> [j \in 1..n |-> Norm2(VSub(R[i], R[j]))]]
        within == [i \in 1..n |-> [j \in 1..n |-> IF le_cutoff(D[i][j]) THEN 1 ELSE 0]]
        eye == [i \in 1..n |-> [j \in 1..n |-> IF i = j THEN 1 ELSE 0]]
    IN  csr_from_dense(
            [i \in 1..n |-> [j \in 1..n |-> bool_minus(within[i][j], eye[i][j])]], n)

\* mutant of atomids_to_edgeid: the edge ids are counted from 1
atomids_to_edgeid_from_one(adj_matrix) ==
    [adj_matrix EXCEPT !.data = [k \in 1..nnz(adj_matrix) |-> k]]

\* line 145: the lookup matrix, same pattern as adj_matrix, data = edge ids
atomids_to_edgeid(adj_matrix) ==
    [adj_matrix EXCEPT !.data = [k \in 1..nnz(adj_matrix) |-> k - 1]]

\* mutant of not_back_and_forth: every candidate triplet is kept
keep_all_candidates(id3ynb_i, id3ynb_k) ==
    np_nonzero([t \in 1..Len(id3ynb_i) |-> TRUE])

\* line 161: the positions of the candidate triplets that are not i->j->i
not_back_and_forth(id3ynb_i, id3ynb_k) ==
    np_nonzero([t \in 1..Len(id3ynb_i) |-> id3ynb_i[t] # id3ynb_k[t]])

\* line 168: atomids_to_edgeid[edgeid_to_source, :].data[id3_y_to_d]
expand_kj(lookup_by_source, id3_y_to_d) ==
    np_take(lookup_by_source.data, id3_y_to_d)

\* mutant of reduce_ji: the column of the entry instead of its row
reduce_ji_col(lookup_by_source, id3_y_to_d) ==
    np_take(lookup_by_source.indices, id3_y_to_d)

\* line 170: atomids_to_edgeid[edgeid_to_source, :].tocoo().row[id3_y_to_d]
reduce_ji(lookup_by_source, id3_y_to_d) ==
    np_take(tocoo_row(lookup_by_source), id3_y_to_d)

Failed(err) ==
    [status |-> "error", error |-> err, keys |-> {},
     R |-> <<>>, R_orig |-> <<>>, Z |-> <<>>, U0 |-> <<>>, batch_seg |-> <<>>,
     idnb_i |-> <<>>, idnb_j |-> <<>>,
     id3dnb_i |-> <<>>, id3dnb_j |-> <<>>, id3dnb_k |-> <<>>,
     id_expand_kj |-> <<>>, id_reduce_ji |-> <<>>]

NoResult == [Failed("") EXCEPT !.status = "none"]

\* lines 132-135: a key of the first record that a later record lacks
\* makes examples[n][k] raise KeyError
concat_fails(ex) ==
    \E n \in 1..Len(ex) : \E k \in ex[1].keys : k \notin ex[n].keys

\* lines 144-179, once the records are augmented and the fields joined
assemble(ex) ==
    LET B == Len(ex)
        has(k) == k \in ex[1].keys
        adj_matrix == bmat_fast([n \in 1..B |-> adjacency(ex[n])])
        lookup == atomids_to_edgeid(adj_matrix)
        nz == csr_nonzero(adj_matrix)
        edgeid_to_target == nz.row
        edgeid_to_source == nz.col
        by_source == csr_row_index(adj_matrix, edgeid_to_source)
        ntriplets == csr_sum1(by_source)
        id3ynb_i == np_repeat(edgeid_to_target, ntriplets)
        id3ynb_j == np_repeat(edgeid_to_source, ntriplets)
        id3ynb_k == csr_nonzero(by_source).col
        id3_y_to_d == not_back_and_forth(id3ynb_i, id3ynb_k)
        lookup_by_source == csr_row_index(lookup, edgeid_to_source)
        N == [n \in 1..B |-> Len(ex[n].Z)]
    IN  IF adj_matrix.err # ""
        THEN Failed(adj_matrix.err)
        ELSE [status |-> "ok", error |-> "",
              keys |-> ex[1].keys \cup
                  {"idnb_i", "idnb_j", "id3dnb_i", "id3dnb_j", "id3dnb_k",
                   "id_expand_kj", "id_reduce_ji", "batch_seg"},
              R |-> concat([n \in 1..B |-> Rows(ex[n].R)]),
              R_orig |-> concat([n \in 1..B |-> Rows(ex[n].R_orig)]),
              Z |-> concat([n \in 1..B |-> ex[n].Z]),
              U0 |-> IF has("U0") THEN concat([n \in 1..B |-> <<ex[n].U0>>]) ELSE <<>>,
              idnb_i |-> edgeid_to_target,
              idnb_j |-> edgeid_to_source,
              id3dnb_i |-> np_take(id3ynb_i, id3_y_to_d),
              id3dnb_j |-> np_take(id3ynb_j, id3_y_to_d),
              id3dnb_k |-> np_take(id3ynb_k, id3_y_to_d),
              id_expand_kj |-> expand_kj(lookup_by_source, id3_y_to_d),
              id_reduce_ji |-> reduce_ji(lookup_by_source, id3_y_to_d),
              batch_seg |-> np_repeat([n \in 1..B |-> n - 1], N)]

\* AtomsCollate.__call__: the records as the call leaves them, and its outcome
collate(ex0) ==
    LET ex1 == restore_shape(ex0)
        ex2 == [n \in 1..Len(ex1) |-> augment(ex1[n], rng.rot[n], rng.noise[n])]
    IN  [examples |-> ex2,
         result |-> IF concat_fails(ex2) THEN Failed("KeyError") ELSE assemble(ex2)]

(***************************************************************************)
(* Inputs                                                                  *)
(***************************************************************************)
\* atoms a record can hold: an atomic number and a position (length units)
AtomKinds ==
    {[Z |-> 1, p |-> <<0, 0, 0>>], [Z |-> 6, p |-> <<1, 0, 0>>], [Z |-> 8, p |-> <<0, 1, 0>>]}

Cutoffs == {-1, 1, 2}

Identity == <<<<1, 0, 0>>, <<0, 1, 0>>, <<0, 0, 1>>>>
\* a quarter turn about the z axis
QuarterTurn == <<<<0, 1, 0>>, <<-1, 0, 0>>, <<0, 0, 1>>>>
Rotations == {Identity, QuarterTurn}

\* a record as the dataset delivers it: 'R' flat, 'Z', and maybe a label 'U0'
Record(atoms, withU0) ==
    [keys |-> IF withU0 THEN {"R", "Z", "U0"} ELSE {"R", "Z"},
     R |-> [shape |-> <<3 * Len(atoms)>>,
            flat |-> Flatten([a \in 1..Len(atoms) |->
                        <<Den * atoms[a].p[1], Den * atoms[a].p[2], Den * atoms[a].p[3]>>])],
     R_orig |-> NoArray,
     Z |-> [a \in 1..Len(atoms) |-> atoms[a].Z],
     U0 |-> IF withU0 THEN 10 + Len(atoms) ELSE 0]

\* the batch of B records with sizes ns, atoms listed in `atoms`
Batch(ns, atoms, withU0) ==
    LET off == np_cumsum0(ns)
    IN  [n \in 1..Len(ns) |->
            Record(SubSeq(atoms, off[n] + 1, off[n + 1]), withU0[n])]

Sizes(total) ==
    {ns \in UNION {[1..B -> 0..MaxAtoms] : B \in 1..MaxB} : SumSeq(ns) <= total}

NoDraw(ns) ==
    [rot |-> [n \in 1..Len(ns) |-> Identity],
     noise |-> [n \in 1..Len(ns) |-> [a \in 1..ns[n] |-> <<0, 0, 0>>]]]

\* augmentation off, the same fields on every record
InitPlain ==
    \E ns \in Sizes(MaxTotal) : \E atoms \in [1..SumSeq(ns) -> AtomKinds] :
        /\ examples = Batch(ns, atoms, [n \in 1..Len(ns) |-> FALSE])
        /\ rotate = FALSE /\ rand_cov = 0
        /\ rng = NoDraw(ns)

\* augmentation on: small batches; the draws are bounded to one matrix for
\* all records of a call and to at most one displaced atom
InitAugmented ==
    \E ns \in Sizes(MaxSmall) : \E atoms \in [1..SumSeq(ns) -> AtomKinds] :
        /\ examples = Batch(ns, atoms, [n \in 1..Len(ns) |-> FALSE])
        /\ rotate \in BOOLEAN /\ rand_cov \in {0, 1}
        /\ rotate \/ rand_cov # 0
        /\ \E M \in Rotations : \E hit \in 0..SumSeq(ns) :
              /\ ~rotate => M = Identity
              /\ rand_cov = 0 => hit = 0
              /\ rng = [rot |-> [n \in 1..Len(ns) |-> M],
                        noise |-> LET off == np_cumsum0(ns)
                                  IN  [n \in 1..Len(ns) |-> [a \in 1..ns[n] |->
                                          IF off[n] + a = hit THEN <<0, 0, Den>>
                                                              ELSE <<0, 0, 0>>]]]

\* augmentation off, the label 'U0' present on some records only; the
\* geometry plays no part here: every atom is a hydrogen at the origin
InitMixedFields ==
    \E ns \in Sizes(MaxTotal) : \E withU0 \in [1..Len(ns) -> BOOLEAN] :
        /\ \E n \in 1..Len(ns) : withU0[n]
        /\ examples = Batch(ns, [a \in 1..SumSeq(ns) |-> [Z |-> 1, p |-> <<0, 0, 0>>]], withU0)
        /\ rotate = FALSE /\ rand_cov = 0
        /\ rng = NoDraw(ns)

Init ==
    /\ InitPlain \/ InitAugmented \/ InitMixedFields
    /\ cutoff \in Cutoffs
    /\ calls = 0
    /\ received = <<>>
    /\ result = NoResult
    /\ prev = NoResult

(***************************************************************************)
(* The one operation: a call of the collate function on the records.       *)
(***************************************************************************)
Call ==
    /\ calls < MaxCalls
    /\ LET out == collate(examples)
       IN  /\ examples' = out.examples
           /\ result' = out.result
    /\ prev' = result
    /\ received' = examples
    /\ calls' = calls + 1
    /\ UNCHANGED <<cutoff, rand_cov, rotate, rng>>

Next == Call

Spec == Init /\ [][Next]_vars

(***************************************************************************)
(* Vocabulary of the properties.  Atom p (0-based, batch-global) of the    *)
(* latest call is atom p - Offset(b) of record b, the records being the    *)
(* ones the call left behind (their 'R' is what the graph was built from). *)
(***************************************************************************)
B == Len(examples)
AtomCount(b) == Len(examples[b].Z)

RECURSIVE Offset(_)
Offset(b) == IF b = 1 THEN 0 ELSE Offset(b - 1) + AtomCount(b - 1)

Total == Offset(B + 1)
Atoms == 0..(Total - 1)
StructOf(p) == CHOOSE b \in 1..B : Offset(b) <= p /\ p < Offset(b + 1)
Position(p) == Rows(examples[StructOf(p)].R)[p - Offset(StructOf(p)) + 1]
ReceivedPosition(b, a) == Rows(received[b].R)[a]

WithinCutoff(p, q) ==
    /\ cutoff >= 0
    /\ Norm2(VSub(Position(p), Position(q))) <= cutoff * cutoff * Den * Den

Returned == result.status = "ok"
Raised == result.status = "error"

NEdges == Len(result.idnb_i)
NTriplets == Len(result.id3dnb_i)
EdgeSet == {<<result.idnb_i[e], result.idnb_j[e]>> : e \in 1..NEdges}
TripletSet ==
    {<<result.id3dnb_i[t], result.id3dnb_j[t], result.id3dnb_k[t]>> : t \in 1..NTriplets}
\* the triplets the edge arrays define
PathsOfEdges ==
    {<<pq[1][1], pq[1][2], pq[2][2]>> :
        pq \in {x \in EdgeSet \X EdgeSet : x[1][2] = x[2][1] /\ x[2][2] # x[1][1]}}
InBlock(b, p) == Offset(b) <= p /\ p < Offset(b + 1)
FullyConnected(b) ==
    \A p, q \in Offset(b)..(Offset(b + 1) - 1) : p # q => <<p, q>> \in EdgeSet
SameFields(ex) == \A n \in 1..Len(ex) : ex[n].keys = ex[1].keys
NoEmptyStructure == \A b \in 1..B : AtomCount(b) >= 1

(***************************************************************************)
(* C1.  The edge arrays hold the pair (i, j) exactly once if i # j, both   *)
(* atoms are of the same structure and their distance is <= cutoff, and    *)
(* not at all otherwise (so: no self-loop, no edge across structures).     *)
(* Fails on the code: with a negative cutoff D <= cutoff is False on the   *)
(* diagonal too, and the boolean subtraction of the identity turns every   *)
(* diagonal entry into a stored True, the self-loop (p, p).                *)
(***************************************************************************)
C1_EdgesExactlyThePairsWithinCutoff ==
    Returned =>
        /\ Len(result.idnb_j) = NEdges
        /\ \A e \in 1..NEdges : result.idnb_i[e] \in Atoms /\ result.idnb_j[e] \in Atoms
        /\ \A i, j \in Atoms :
              Cardinality({e \in 1..NEdges :
                              result.idnb_i[e] = i /\ result.idnb_j[e] = j})
                = IF i # j /\ StructOf(i) = StructOf(j) /\ WithinCutoff(i, j)
                  THEN 1 ELSE 0

\* what the code does keep of C1: the statement for a cutoff >= 0
EdgesExactWhenCutoffNotNegative ==
    cutoff >= 0 => C1_EdgesExactlyThePairsWithinCutoff

(***************************************************************************)
(* C2.  The triplet arrays list exactly the (i, j, k) with edges (i<-j)    *)
(* and (j<-k) and k # i, each once; a 2-atom structure has no triplet, a   *)
(* fully connected 3-atom structure has 6.                                 *)
(***************************************************************************)
C2_TripletsAreThePathsOfEdges ==
    Returned =>
        /\ Len(result.id3dnb_j) = NTriplets /\ Len(result.id3dnb_k) = NTriplets
        /\ Cardinality(TripletSet) = NTriplets
        /\ TripletSet = PathsOfEdges
        /\ \A t \in 1..NTriplets : result.id3dnb_k[t] # result.id3dnb_i[t]
        /\ \A b \in 1..B :
              LET inb == {t \in 1..NTriplets : InBlock(b, result.id3dnb_j[t])}
              IN  /\ AtomCount(b) = 2 => inb = {}
                  /\ AtomCount(b) = 3 /\ FullyConnected(b) => Cardinality(inb) = 6

C2_Witness ==
    /\ Returned /\ B = 2
    /\ AtomCount(2) = 3 /\ FullyConnected(2)
    /\ \E t \in 1..NTriplets : result.id3dnb_i[t] >= Offset(2)
    /\ NTriplets < SumSeq([e \in 1..NEdges |->
            Cardinality({f \in 1..NEdges : result.idnb_i[f] = result.idnb_j[e]})])

(***************************************************************************)
(* C3.  id_expand_kj[t] is the position, in the edge arrays, of the edge   *)
(* with target id3dnb_j[t] and source id3dnb_k[t] (edge 0 included).       *)
(***************************************************************************)
C3_ExpandIsTheInnerEdge ==
    Returned =>
        /\ Len(result.id_expand_kj) = NTriplets
        /\ \A t \in 1..NTriplets :
              LET e == result.id_expand_kj[t]
              IN  /\ e \in 0..(NEdges - 1)
                  /\ result.idnb_i[e + 1] = result.id3dnb_j[t]
                  /\ result.idnb_j[e + 1] = result.id3dnb_k[t]

C3_Witness ==
    /\ Returned
    /\ \E t \in 1..NTriplets : result.id_expand_kj[t] = 0
    /\ \E t \in 1..NTriplets : result.id_expand_kj[t] > 0

(***************************************************************************)
(* C4 as claimed: id_reduce_ji[t] is the local rank of the outer edge      *)
(* (i<-j) among the edges sharing source j, hence smaller than the number  *)
(* of those edges.                                                         *)
(***************************************************************************)
EdgesOfSource(j) == {e \in 1..NEdges : result.idnb_j[e] = j}
C4_ReduceIsLocalRank ==
    Returned =>
        \A t \in 1..NTriplets :
            LET i == result.id3dnb_i[t]
                j == result.id3dnb_j[t]
            IN  /\ result.id_reduce_ji[t] < Cardinality(EdgesOfSource(j))
                /\ result.id_reduce_ji[t] =
                      Cardinality({e \in EdgesOfSource(j) : result.idnb_i[e] < i})

(***************************************************************************)
(* C4 amended: id_reduce_ji[t] is the batch-global id of the outer edge,   *)
(* the position in the edge arrays of the edge with target id3dnb_i[t] and *)
(* source id3dnb_j[t].                                                     *)
(***************************************************************************)
C4_ReduceIsTheOuterEdge ==
    Returned =>
        /\ Len(result.id_reduce_ji) = NTriplets
        /\ \A t \in 1..NTriplets :
              LET e == result.id_reduce_ji[t]
              IN  /\ e \in 0..(NEdges - 1)
                  /\ result.idnb_i[e + 1] = result.id3dnb_i[t]
                  /\ result.idnb_j[e + 1] = result.id3dnb_j[t]

C4_Witness ==
    /\ Returned
    /\ \E t \in 1..NTriplets :
          result.id_reduce_ji[t] >= Cardinality(EdgesOfSource(result.id3dnb_j[t]))

(***************************************************************************)
(* C5.  batch_seg has one entry per atom, is non-decreasing, and is b at   *)
(* exactly the positions of structure b's atoms; R, R_orig and Z hold the  *)
(* atoms at the same positions, structures and atoms in input order.       *)
(***************************************************************************)
C5_SegmentsAndConcatenationOrder ==
    Returned =>
        /\ Len(result.batch_seg) = Total
        /\ Len(result.Z) = Total /\ Len(result.R) = Total /\ Len(result.R_orig) = Total
        /\ \A p \in 1..(Total - 1) : result.batch_seg[p] <= result.batch_seg[p + 1]
        /\ \A p \in Atoms : \A b \in 1..B :
              (result.batch_seg[p + 1] = b - 1) <=> InBlock(b, p)
        /\ \A b \in 1..B : \A a \in 1..AtomCount(b) :
              /\ result.Z[Offset(b) + a] = examples[b].Z[a]
              /\ result.R[Offset(b) + a] = Rows(examples[b].R)[a]
              /\ result.R_orig[Offset(b) + a] = Rows(examples[b].R_orig)[a]

C5_Witness ==
    /\ Returned /\ B = 2
    /\ AtomCount(1) >= 1 /\ AtomCount(2) >= 2
    /\ examples[1].Z # examples[2].Z
    /\ result.batch_seg[1] = 0 /\ result.batch_seg[Total] = 1

(***************************************************************************)
(* C6.  When no two distinct atoms of a structure are within the cutoff,   *)
(* the call still returns, with empty edge and triplet arrays.             *)
(* Fails on the code: _bmat_fast raises ValueError.                        *)
(***************************************************************************)
NoPairWithinCutoff ==
    \A p, q \in Atoms : p # q /\ StructOf(p) = StructOf(q) => ~WithinCutoff(p, q)

C6_NoEdgeBatchIsAssembled ==
    (calls >= 1 /\ SameFields(received) /\ NoEmptyStructure /\ cutoff > 0
        /\ NoPairWithinCutoff) =>
        /\ Returned
        /\ result.idnb_i = <<>> /\ result.idnb_j = <<>>
        /\ result.id3dnb_i = <<>> /\ result.id3dnb_j = <<>> /\ result.id3dnb_k = <<>>
        /\ result.id_expand_kj = <<>> /\ result.id_reduce_ji = <<>>

(***************************************************************************)
(* C7.  A second call on the same records, with the same settings and the  *)
(* same draws, returns what the first call returned.                       *)
(* (Every call of a behaviour gets the draws rng; the cutoff is positive.) *)
(* Fails on the code: the first call rebinds every record's 'R' to the     *)
(* augmented positions, and the second call augments those.                *)
(***************************************************************************)
C7_SecondCallSameResult ==
    (calls >= 2 /\ cutoff > 0) => result = prev

(***************************************************************************)
(* C8 as claimed: R_orig holds the positions as received, whatever the     *)
(* settings; with no augmentation R equals R_orig.                         *)
(***************************************************************************)
C8_ROrigIsTheReceivedPositions ==
    (Returned /\ cutoff > 0) =>
        /\ \A b \in 1..B : \A a \in 1..AtomCount(b) :
              result.R_orig[Offset(b) + a] = ReceivedPosition(b, a)
        /\ (~rotate /\ rand_cov = 0) => result.R = result.R_orig

(***************************************************************************)
(* C8 amended: R_orig holds the positions before the random perturbation   *)
(* and after the rotation: the positions as received when rotate is off,   *)
(* the received positions centred on their mean and multiplied by the      *)
(* drawn matrix when it is on; R is R_orig plus the drawn perturbation;    *)
(* with no augmentation R equals R_orig and both are the positions as      *)
(* received.                                                               *)
(***************************************************************************)
ReceivedSum(b) ==
    [c \in 1..3 |-> SumSeq([a \in 1..AtomCount(b) |-> ReceivedPosition(b, a)[c]])]
Scaled(n, v) == <<n * v[1], n * v[2], n * v[3]>>

C8_ROrigIsRotatedUnperturbed ==
    Returned =>
        \A b \in 1..B : \A a \in 1..AtomCount(b) :
            LET orig == result.R_orig[Offset(b) + a]
                n == AtomCount(b)
            IN  /\ ~rotate => orig = ReceivedPosition(b, a)
                /\ rotate => Scaled(n, orig) =
                      VDot(VSub(Scaled(n, ReceivedPosition(b, a)), ReceivedSum(b)),
                           rng.rot[b])
                /\ VSub(result.R[Offset(b) + a], orig) =
                      IF rand_cov = 0 THEN <<0, 0, 0>> ELSE rng.noise[b][a]
                /\ (~rotate /\ rand_cov = 0) =>
                      result.R[Offset(b) + a] = ReceivedPosition(b, a)

C8_Witness ==
    /\ Returned /\ rotate /\ rand_cov # 0 /\ cutoff > 0
    /\ result.R # result.R_orig
    /\ \E b \in 1..B : \E a \in 1..AtomCount(b) :
          result.R_orig[Offset(b) + a] # ReceivedPosition(b, a)

(***************************************************************************)
(* C9.  A batch with a structure of zero atoms is rejected with an error.  *)
(* Fails on the code: the structure becomes an empty block.                *)
(***************************************************************************)
C9_ZeroAtomStructureRaises ==
    (calls >= 1 /\ cutoff > 0 /\ SameFields(received)
        /\ \E b \in 1..B : Len(received[b].Z) = 0) => Raised

(***************************************************************************)
(* C10.  A batch whose records do not all have the same fields is          *)
(* rejected with an error, whichever record has the extra field.           *)
(* Fails on the code: only the first record's keys are looked up.          *)
(***************************************************************************)
C10_MixedFieldSetsRaise ==
    (calls >= 1 /\ cutoff > 0 /\ NoEmptyStructure /\ ~SameFields(received)) => Raised

\* what the code does keep of C10: a record that lacks a field of the first
\* record makes the call raise KeyError
MissingFieldRaises ==
    (calls >= 1 /\ \E n \in 1..B : \E k \in received[1].keys : k \notin received[n].keys)
        => Raised /\ result.error = "KeyError"

====
